---- MODULE Spec2Model ----
(***************************************************************************)
(* Model of src/databases.ts: DatabaseItem, DatabaseTreeDataProvider and   *)
(* DatabaseManager.                                                        *)
(*                                                                         *)
(* A file name is a sequence of characters, a path is a sequence of file   *)
(* names (a trailing empty name is a trailing separator), a Uri is a       *)
(* record of a scheme and an fsPath.  An optional value is the empty       *)
(* sequence (undefined) or a one-element sequence.  DatabaseItem objects   *)
(* live in `heap`; an object's identity is its index there, so that        *)
(* reference equality and equality of fields are different things.         *)
(***************************************************************************)
EXTENDS Integers, Sequences, FiniteSets, TLC

VARIABLES heap, databases, current, pending, persisted, dialogs, lastOp

vars == <<heap, databases, current, pending, persisted, dialogs, lastOp>>

(* ---------------------------- bounds ----------------------------------- *)

\* DatabaseItem objects constructed successfully within one session
MaxAlloc == 2

\* folder-chooser dialogs open at the same time
MaxDialogs == 2

(* ------------------------- optional values ----------------------------- *)

Undefined == <<>>

Some(v) == <<v>>

(* --------------------------- file system ------------------------------- *)

NameA == <<"a">>

NameB == <<"b">>

NameE == <<"e">>

NameSrc == <<"s", "r", "c">>

NameDbC == <<"d", "b", "-", "c">>

NameDbN == <<"d", "b", "-", "n">>

NameDbX == <<"d", "b", "-", "x">>

NameDbY == <<"d", "b", "-", "y">>

NameDb == <<"d", "b">>

NameXDb == <<"x", "d", "b", "-">>

\* the empty name: what follows a trailing separator
NameNone == <<>>

DirA == <<NameA>>

DirATrail == <<NameA, NameNone>>

DirB == <<NameB>>

DirE == <<NameE>>

DirADb == <<NameA, NameDbC>>

\* the directories a caller or the folder chooser can hand over
Dirs == {DirA, DirATrail, DirB, DirE, DirADb}

\* path.normalize as far as path.join applies it: empty segments vanish
Normalize(p) == SelectSeq(p, LAMBDA n : n # NameNone)

\* path.join(p, child)
PathJoin(p, child) == Append(Normalize(p), child)

\* path.basename(p): the last non-empty segment
Basename(p) == LET q == Normalize(p) IN q[Len(q)]

\* fs.readdirSync(p): the children of the directory, in listing order
ReaddirSync(p) ==
    LET q == Normalize(p) IN
    CASE q = DirA -> <<NameSrc, NameDbC>>
      [] q = DirB -> <<NameDbX, NameXDb, NameDbY>>
      [] q = DirE -> <<NameSrc, NameDb>>
      [] q = DirADb -> <<NameDbN>>
      [] OTHER -> <<>>

\* fs.exists(p)
FsExists(p) ==
    LET q == Normalize(p)
        siblings == ReaddirSync(SubSeq(q, 1, Len(q) - 1))
    IN  /\ Len(q) >= 2
        /\ \E i \in 1..Len(siblings) : siblings[i] = q[Len(q)]

(* ------------------------------- Uri ----------------------------------- *)

\* vscode.Uri.file(p)
UriFile(p) == [scheme |-> "file", fsPath |-> p]

\* a Uri of a remote file system
UriRemote(p) == [scheme |-> "vscode-remote", fsPath |-> p]

Uris == {UriFile(p) : p \in Dirs} \cup {UriRemote(DirA)}

(* --------------------------- DatabaseItem ------------------------------ *)

DbPrefix == <<"d", "b", "-">>

\* String.prototype.startsWith
StartsWith(name, prefix) ==
    /\ Len(name) >= Len(prefix)
    /\ SubSeq(name, 1, Len(prefix)) = prefix

\* findDb matching on the letters of the prefix only
findDbShortPrefix(uri) ==
    SelectSeq(ReaddirSync(uri.fsPath), LAMBDA f : StartsWith(f, <<"d", "b">>))

\* DatabaseItem.findDb
findDb(uri) == SelectSeq(ReaddirSync(uri.fsPath), LAMBDA f : StartsWith(f, DbPrefix))

\* the NoDatabaseError message
NoDatabaseMessage(uri) == [kind |-> "error", path |-> uri.fsPath]

\* the showWarningMessage text of the constructor
MultipleMessage(p) == [kind |-> "warning", path |-> p]

\* the constructor warning whenever it found a database
NewDatabaseItemWarnsAlways(uri) ==
    LET dbRelativePaths == findDb(uri) IN
    IF Len(dbRelativePaths) = 0
    THEN [ok |-> FALSE,
          item |-> [snapshotUri |-> uri, name |-> Basename(uri.fsPath),
                    dbUri |-> uri, srcRoot |-> Undefined],
          warnings |-> <<>>,
          error |-> NoDatabaseMessage(uri)]
    ELSE LET dbAbsolutePath == PathJoin(uri.fsPath, dbRelativePaths[1]) IN
         [ok |-> TRUE,
          item |-> [snapshotUri |-> uri, name |-> Basename(uri.fsPath),
                    dbUri |-> UriFile(dbAbsolutePath), srcRoot |-> Undefined],
          warnings |-> <<MultipleMessage(dbAbsolutePath)>>,
          error |-> NoDatabaseMessage(uri)]

\* new DatabaseItem(uri): ok = FALSE stands for the thrown NoDatabaseError
NewDatabaseItem(uri) ==
    LET dbRelativePaths == findDb(uri) IN
    IF Len(dbRelativePaths) = 0
    THEN [ok |-> FALSE,
          item |-> [snapshotUri |-> uri, name |-> Basename(uri.fsPath),
                    dbUri |-> uri, srcRoot |-> Undefined],
          warnings |-> <<>>,
          error |-> NoDatabaseMessage(uri)]
    ELSE LET dbAbsolutePath == PathJoin(uri.fsPath, dbRelativePaths[1]) IN
         [ok |-> TRUE,
          item |-> [snapshotUri |-> uri, name |-> Basename(uri.fsPath),
                    dbUri |-> UriFile(dbAbsolutePath), srcRoot |-> Undefined],
          warnings |-> IF Len(dbRelativePaths) > 1
                       THEN <<MultipleMessage(dbAbsolutePath)>> ELSE <<>>,
          error |-> NoDatabaseMessage(uri)]

(* ------------------------ the running program -------------------------- *)

\* The objects of one session together with what the running handler has
\* shown, fired and thrown so far.
Machine ==
    [heap |-> heap, databases |-> databases, current |-> current,
     pending |-> pending, persisted |-> persisted,
     errors |-> <<>>, warnings |-> <<>>, fired |-> 0, seen |-> <<>>,
     threw |-> FALSE, uriCalled |-> Undefined]

\* the value of `current` standing for undefined
NoItem == 0

(* --------------------- DatabaseTreeDataProvider ------------------------ *)

\* DatabaseTreeDataProvider.getCurrent
getCurrent(m) == m.current

\* what a subscriber reads from the provider when the event reaches it
Observed(m) == [databases |-> m.databases, current |-> m.current]

\* _onDidChangeTreeData.fire()
fire(m) == [m EXCEPT !.fired = @ + 1, !.seen = Append(@, Observed(m))]

\* setCurrentItem firing the event before it assigns
setCurrentItemFiresFirst(m, id) == [fire(m) EXCEPT !.current = id]

\* DatabaseTreeDataProvider.setCurrentItem
setCurrentItem(m, id) == fire([m EXCEPT !.current = id])

\* this.databases.findIndex(it => it.dbUri.fsPath == dir.fsPath), 0-based
findIndex(m, dir) ==
    LET hits == {i \in 1..Len(m.databases) :
                    m.heap[m.databases[i]].dbUri.fsPath = dir.fsPath}
    IN  IF hits = {} THEN -1
        ELSE (CHOOSE i \in hits : \A j \in hits : i <= j) - 1

\* the new item put in front of the list
pushFront(m, id) == [m EXCEPT !.databases = <<id>> \o @]

\* push left out: the new item is selected but never stored
pushForgotten(m, id) == m

\* this.databases.push(item)
push(m, id) == [m EXCEPT !.databases = Append(@, id)]

\* the catch block also dropping the selection
catchNoDatabaseDeselects(m, message) ==
    [m EXCEPT !.errors = Append(@, message), !.current = NoItem]

\* the catch block of setCurrentUri for a NoDatabaseError
catchNoDatabase(m, message) == [m EXCEPT !.errors = Append(@, message)]

\* DatabaseTreeDataProvider.setCurrentUri
setCurrentUri(m, dir) ==
    LET r == NewDatabaseItem(dir)
        m0 == [m EXCEPT !.uriCalled = Some(dir)]
    IN  IF ~r.ok
        THEN catchNoDatabase(m0, r.error)
        ELSE LET id == Len(m0.heap) + 1
                 m1 == [m0 EXCEPT !.heap = Append(@, r.item),
                                  !.pending = @ \cup {id},
                                  !.warnings = @ \o r.warnings]
                 ix == findIndex(m1, dir)
             IN  IF ix = -1
                 THEN setCurrentItem(push(m1, id), id)
                 ELSE setCurrentItem(m1, m1.databases[ix + 1])

\* DatabaseTreeDataProvider.getChildren
getChildren(m, element) == IF element = NoItem THEN m.databases ELSE <<>>

\* getTreeItem marking every item whose database is the current one
getTreeItemByDatabase(m, element) ==
    [label |-> m.heap[element].name,
     selectedIcon |-> /\ m.current # NoItem
                      /\ m.heap[element].dbUri = m.heap[m.current].dbUri,
     tooltip |-> m.heap[element].snapshotUri.fsPath]

\* DatabaseTreeDataProvider.getTreeItem: is the selected icon set
getTreeItem(m, element) ==
    [label |-> m.heap[element].name,
     selectedIcon |-> (element = m.current),
     tooltip |-> m.heap[element].snapshotUri.fsPath]

(* --------------------------- DatabaseManager --------------------------- *)

\* ctx.workspaceState.update(CURRENT_DB, value)
workspaceStateUpdate(m, value) == [m EXCEPT !.persisted = value]

\* DatabaseManager.setCurrentItem
managerSetCurrentItem(m, id) == setCurrentItem(m, id)

\* getDatabaseDir answering with the snapshot directory of the current item
getDatabaseDirOfCurrentSnapshot(m) == Some(m.heap[m.current].snapshotUri)

\* getDatabaseDir with a current database: db.dbUri
getDatabaseDirOfCurrent(m) == Some(m.heap[m.current].dbUri)

\* setCurrentDatabase storing the resolved database directory of the selection
setCurrentDatabaseStoresDbUri(m, db) ==
    IF db.scheme # "file"
    THEN [m EXCEPT !.threw = TRUE]
    ELSE LET m1 == setCurrentUri(m, db) IN
         workspaceStateUpdate(m1,
             IF m1.current = NoItem THEN Some(db.fsPath)
             ELSE Some(m1.heap[m1.current].dbUri.fsPath))

\* setCurrentDatabase testing the scheme once the selection is made
setCurrentDatabaseChecksLate(m, db) ==
    LET m1 == workspaceStateUpdate(setCurrentUri(m, db), Some(db.fsPath)) IN
    IF db.scheme # "file" THEN [m1 EXCEPT !.threw = TRUE] ELSE m1

\* DatabaseManager.setCurrentDatabase
setCurrentDatabase(m, db) ==
    IF db.scheme # "file"
    THEN [m EXCEPT !.threw = TRUE]
    ELSE workspaceStateUpdate(setCurrentUri(m, db), Some(db.fsPath))

\* a cancelled dialog taken as a request to forget the stored database
chooseAndSetDatabaseResumeForgets(m, chosen) ==
    IF chosen # Undefined THEN setCurrentDatabase(m, chosen[1])
    ELSE workspaceStateUpdate(m, Undefined)

\* the part of chooseAndSetDatabase that runs once the dialog has answered
chooseAndSetDatabaseResume(m, chosen) ==
    IF chosen # Undefined THEN setCurrentDatabase(m, chosen[1]) ELSE m

\* the constructor leaving a stored path that failed in the workspace state
ManagerConstructorKeepsStored(db) ==
    LET empty == [heap |-> <<>>, databases |-> <<>>, current |-> NoItem,
                  pending |-> {}, persisted |-> db,
                  errors |-> <<>>, warnings |-> <<>>, fired |-> 0,
                  seen |-> <<>>, threw |-> FALSE, uriCalled |-> Undefined]
    IN  IF db = Undefined
        THEN empty
        ELSE LET r == NewDatabaseItem(UriFile(db[1])) IN
             IF r.ok
             THEN [empty EXCEPT !.heap = <<r.item>>, !.databases = <<1>>,
                                !.current = 1, !.pending = {1},
                                !.warnings = r.warnings]
             ELSE [empty EXCEPT !.errors = <<r.error>>]

\* the DatabaseManager constructor, started from the workspace state
ManagerConstructor(db) ==
    LET empty == [heap |-> <<>>, databases |-> <<>>, current |-> NoItem,
                  pending |-> {}, persisted |-> db,
                  errors |-> <<>>, warnings |-> <<>>, fired |-> 0,
                  seen |-> <<>>, threw |-> FALSE, uriCalled |-> Undefined]
    IN  IF db = Undefined
        THEN empty
        ELSE LET r == NewDatabaseItem(UriFile(db[1])) IN
             IF r.ok
             THEN [empty EXCEPT !.heap = <<r.item>>, !.databases = <<1>>,
                                !.current = 1, !.pending = {1},
                                !.warnings = r.warnings]
             ELSE workspaceStateUpdate(
                      [empty EXCEPT !.errors = <<r.error>>], Undefined)

(* ------------------------------ actions -------------------------------- *)

\* the operations that wait for the folder chooser
Origins == {"getDatabaseDir", "chooseAndSetDatabase"}

OpenDialogs == dialogs["getDatabaseDir"] + dialogs["chooseAndSetDatabase"]

NoDialogs == [o \in Origins |-> 0]

\* what the step that just ran was and what it gave back
\* (`after` is set by a restart only: the operation the old session ended on)
Done(m, op, arg, ret) ==
    [op |-> op, arg |-> arg, ret |-> ret, threw |-> m.threw,
     errors |-> m.errors, warnings |-> m.warnings, fired |-> m.fired,
     seen |-> m.seen, uriCalled |-> m.uriCalled, after |-> Undefined]

\* did the operation recorded in `done` select the directory it was given
Succeeded(done) ==
    /\ done.arg # Undefined
    /\ done.uriCalled = done.arg
    /\ done.errors = <<>>
    /\ ~done.threw

\* write the machine back to the variables
Commit(m, op, arg, ret) ==
    /\ heap' = m.heap
    /\ databases' = m.databases
    /\ current' = m.current
    /\ pending' = m.pending
    /\ persisted' = m.persisted
    /\ lastOp' = Done(m, op, arg, ret)

\* would this call construct a DatabaseItem successfully
Allocates(db) == db.scheme = "file" /\ NewDatabaseItem(db).ok

CanAllocate(db) == Allocates(db) => Len(heap) < MaxAlloc

Init ==
    \E db \in {Undefined} \cup {Some(d) : d \in Dirs} :
        LET m == ManagerConstructor(db) IN
        /\ heap = m.heap
        /\ databases = m.databases
        /\ current = m.current
        /\ pending = m.pending
        /\ persisted = m.persisted
        /\ dialogs = NoDialogs
        /\ lastOp = Done(m, "constructor", db, Undefined)

\* a new session: new DatabaseManager(ctx) on the stored workspace state
Restart ==
    LET m == ManagerConstructor(persisted) IN
    /\ heap' = m.heap
    /\ databases' = m.databases
    /\ current' = m.current
    /\ pending' = m.pending
    /\ persisted' = m.persisted
    /\ dialogs' = NoDialogs
    /\ lastOp' = [Done(m, "constructor", persisted, Undefined) EXCEPT
                     !.after = Some([op |-> lastOp.op, arg |-> lastOp.arg,
                                     ok |-> Succeeded(lastOp)])]

\* getDatabaseDir with a current database
GetDatabaseDirCurrent ==
    /\ getCurrent(Machine) # NoItem
    /\ Commit(Machine, "getDatabaseDir", Undefined, getDatabaseDirOfCurrent(Machine))
    /\ UNCHANGED dialogs

\* Window.showOpenDialog is shown and the caller is suspended
ShowOpenDialog(origin) ==
    /\ OpenDialogs < MaxDialogs
    /\ dialogs' = [dialogs EXCEPT ![origin] = @ + 1]
    /\ Commit(Machine, "showOpenDialog", Undefined, Undefined)

\* getDatabaseDir without a current database: up to the await
GetDatabaseDirPrompt ==
    /\ getCurrent(Machine) = NoItem
    /\ ShowOpenDialog("getDatabaseDir")

\* chooseAndSetDatabase: up to the await.  chooseAndSetDatabaseSync starts
\* this same operation and only logs its rejection.
ChooseAndSetDatabase == ShowOpenDialog("chooseAndSetDatabase")

\* the dialog answers (chosen = Undefined: cancelled) and the caller resumes
DialogAnswered(origin, chosen) ==
    /\ dialogs[origin] > 0
    /\ chosen # Undefined => CanAllocate(chosen[1])
    /\ dialogs' = [dialogs EXCEPT ![origin] = @ - 1]
    /\ LET m == chooseAndSetDatabaseResume(Machine, chosen) IN
       Commit(m, origin, chosen, IF m.threw THEN Undefined ELSE chosen)

\* setCurrentDatabase called with a Uri
SetCurrentDatabase(db) ==
    /\ CanAllocate(db)
    /\ Commit(setCurrentDatabase(Machine, db), "setCurrentDatabase", Some(db), Undefined)
    /\ UNCHANGED dialogs

\* setCurrentItem called with an item of the tree view
SetCurrentItem(i) ==
    /\ Commit(managerSetCurrentItem(Machine, databases[i]), "setCurrentItem",
              Some(heap[databases[i]].snapshotUri), Undefined)
    /\ UNCHANGED dialogs

\* the callback taking the source root for granted
existsCallbackAssumesSrc(m, id) ==
    LET src == PathJoin(m.heap[id].snapshotUri.fsPath, NameSrc) IN
    [m EXCEPT !.heap[id].srcRoot = Some(UriFile(src)), !.pending = @ \ {id}]

\* the callback handed to fs.exists by the constructor of item id
existsCallback(m, id) ==
    LET src == PathJoin(m.heap[id].snapshotUri.fsPath, NameSrc) IN
    [m EXCEPT !.heap[id].srcRoot = IF FsExists(src) THEN Some(UriFile(src))
                                   ELSE Undefined,
              !.pending = @ \ {id}]

\* the fs.exists callback of a constructed item runs
ExistsCallback(id) ==
    /\ id \in pending
    /\ Commit(existsCallback(Machine, id), "existsCallback",
              Some(heap[id].snapshotUri), Undefined)
    /\ UNCHANGED dialogs

Next ==
    \/ Restart
    \/ GetDatabaseDirCurrent
    \/ GetDatabaseDirPrompt
    \/ ChooseAndSetDatabase
    \/ \E o \in Origins, c \in {Undefined} \cup {Some(u) : u \in Uris} : DialogAnswered(o, c)
    \/ \E u \in Uris : SetCurrentDatabase(u)
    \/ \E i \in 1..Len(databases) : SetCurrentItem(i)
    \/ \E id \in 1..Len(heap) : ExistsCallback(id)

Spec == Init /\ [][Next]_vars

\* the steps of one session that construct items and resolve their source
\* roots (an answered dialog runs the same setCurrentDatabase)
SessionNext ==
    \/ \E u \in Uris : SetCurrentDatabase(u)
    \/ \E id \in 1..Len(heap) : ExistsCallback(id)

\* one session in which every fs.exists call made calls back in the end
SessionSpec ==
    /\ Init
    /\ [][SessionNext]_vars
    /\ \A id \in 1..MaxAlloc : WF_vars(ExistsCallback(id))

TypeOK ==
    /\ current \in 0..Len(heap)
    /\ \A i \in 1..Len(databases) : databases[i] \in 1..Len(heap)
    /\ pending \subseteq 1..Len(heap)
    /\ Len(heap) <= MaxAlloc
    /\ OpenDialogs <= MaxDialogs

(* ------------------------------ properties ----------------------------- *)

\* does the directory have an immediate child with the required prefix
HasPrefixedChild(p) ==
    \E i \in 1..Len(ReaddirSync(p)) : StartsWith(ReaddirSync(p)[i], DbPrefix)

\* the database directory a snapshot directory resolves to
ResolvedDb(p) ==
    LET l == ReaddirSync(p)
        first == CHOOSE i \in 1..Len(l) :
                    /\ StartsWith(l[i], DbPrefix)
                    /\ \A j \in 1..(i - 1) : ~StartsWith(l[j], DbPrefix)
    IN  PathJoin(p, l[first])

\* the positions of `dbs` whose item has database path p
EntriesFor(hp, dbs, p) == {i \in 1..Len(dbs) : hp[dbs[i]].dbUri.fsPath = p}

\* the operations that end with a dialog's answer
ChooseOps == Origins

\* C1: setCurrentUri(D) called twice in a row with the same valid snapshot
\* directory D leaves exactly one entry of databases for D's resolved database
\* path, and current is that entry after the first call and after the second.
C1_Idempotence ==
    [][ ( /\ lastOp.uriCalled # Undefined
          /\ lastOp'.uriCalled = lastOp.uriCalled
          /\ HasPrefixedChild(lastOp.uriCalled[1].fsPath) )
        => LET p == ResolvedDb(lastOp.uriCalled[1].fsPath) IN
           /\ Cardinality(EntriesFor(heap, databases, p)) = 1
           /\ Cardinality(EntriesFor(heap', databases', p)) = 1
           /\ current # NoItem
           /\ current' = current
           /\ \E i \in EntriesFor(heap', databases', p) : databases'[i] = current'
      ]_vars

\* C2: no two elements of databases have the same database path.
C2_DedupByDatabasePath ==
    \A i, j \in 1..Len(databases) :
        i # j => heap[databases[i]].dbUri.fsPath # heap[databases[j]].dbUri.fsPath

\* C3: if current is set it is reference-equal to an element of databases.
C3_CurrentInItems ==
    current # NoItem => \E i \in 1..Len(databases) : databases[i] = current

\* a directory was selected whose path is the database path of a stored item:
\* a new object was constructed and the stored one became current
C3_Witness ==
    /\ lastOp.uriCalled # Undefined
    /\ lastOp.fired = 1
    /\ Len(heap) > Len(databases)
    /\ current # NoItem
    /\ current # Len(heap)

\* C4: setCurrentUri with a directory without a child of the required prefix
\* shows the NoDatabaseError message and leaves databases and current (and
\* every item) as they were.
C4_NoDatabaseLeavesRegistry ==
    [][ ( /\ lastOp'.uriCalled # Undefined
          /\ ~HasPrefixedChild(lastOp'.uriCalled[1].fsPath) )
        => /\ lastOp'.errors = <<NoDatabaseMessage(lastOp'.uriCalled[1])>>
           /\ lastOp'.fired = 0
           /\ databases' = databases
           /\ current' = current
           /\ heap' = heap
      ]_vars

\* setCurrentUri has just refused a directory while a database was selected
C4_Witness ==
    /\ lastOp.uriCalled # Undefined
    /\ ~HasPrefixedChild(lastOp.uriCalled[1].fsPath)
    /\ lastOp.errors # <<>>
    /\ current # NoItem
    /\ Len(databases) >= 1

\* C5: a selection through the manager with a local directory that fails
\* with NoDatabaseError changes neither databases, current nor the stored value.
C5_FailedSelectionIsNoOp ==
    [][ ( /\ lastOp'.op \in ChooseOps \cup {"setCurrentDatabase"}
          /\ lastOp'.arg # Undefined
          /\ lastOp'.arg[1].scheme = "file"
          /\ ~HasPrefixedChild(lastOp'.arg[1].fsPath) )
        => /\ databases' = databases
           /\ current' = current
           /\ persisted' = persisted
      ]_vars

\* the manager operations that have run to completion in the state
CompletedOps == ChooseOps \cup {"constructor", "getDatabaseDir", "setCurrentDatabase", "setCurrentItem"}

\* C6: after a completed manager operation the stored value is absent or is
\* the snapshot directory of the current item.
C6_StoredIsCurrentSnapshot ==
    (lastOp.op \in CompletedOps /\ ~lastOp.threw)
    => \/ persisted = Undefined
       \/ /\ current # NoItem
          /\ persisted = Some(heap[current].snapshotUri.fsPath)

\* C7: a manager constructed from the stored value right after a choose
\* operation succeeded with D has exactly one item, which is current and has
\* snapshot directory D.
C7_PersistenceRoundTrip ==
    ( /\ lastOp.op = "constructor"
      /\ lastOp.after # Undefined
      /\ lastOp.after[1].op \in ChooseOps
      /\ lastOp.after[1].ok )
    => /\ Len(databases) = 1
       /\ current = databases[1]
       /\ heap[current].snapshotUri = lastOp.after[1].arg[1]

\* a session was started right after a successful choose operation
C7_Witness ==
    /\ lastOp.op = "constructor"
    /\ lastOp.after # Undefined
    /\ lastOp.after[1].op \in ChooseOps
    /\ lastOp.after[1].ok
    /\ current # NoItem

\* C8: a choose operation that returns a value returns the database path of
\* the current item.
C8_ReturnsDatabasePath ==
    (lastOp.op \in ChooseOps /\ lastOp.ret # Undefined)
    => /\ current # NoItem
       /\ lastOp.ret = Some(heap[current].dbUri)

\* C9: right after the manager's setCurrentItem(item) the stored value is the
\* item's snapshot directory.
C9_SetCurrentItemPersists ==
    lastOp.op = "setCurrentItem"
    => /\ current # NoItem
       /\ Some(heap[current].snapshotUri) = lastOp.arg
       /\ persisted = Some(heap[current].snapshotUri.fsPath)

\* C10: the constructor starts empty on an absent stored path; with one item,
\* current, and the stored value kept on a valid one; and empty, with the
\* error shown and the stored value cleared, on one without a database.
C10_Initialization ==
    lastOp.op = "constructor"
    => LET db == lastOp.arg IN
       /\ db = Undefined
          => /\ databases = <<>> /\ current = NoItem
             /\ persisted = Undefined /\ lastOp.errors = <<>>
       /\ (db # Undefined /\ HasPrefixedChild(db[1]))
          => /\ Len(databases) = 1 /\ current = databases[1]
             /\ heap[current].snapshotUri.fsPath = db[1]
             /\ persisted = db /\ lastOp.errors = <<>>
       /\ (db # Undefined /\ ~HasPrefixedChild(db[1]))
          => /\ databases = <<>> /\ current = NoItem
             /\ persisted = Undefined
             /\ lastOp.errors = <<NoDatabaseMessage(UriFile(db[1]))>>

\* a session started from a stored path without a database
C10_Witness ==
    /\ lastOp.op = "constructor"
    /\ lastOp.arg # Undefined
    /\ ~HasPrefixedChild(lastOp.arg[1])
    /\ lastOp.errors # <<>>
    /\ persisted = Undefined

\* C11: a cancelled folder chooser makes chooseAndSetDatabase and
\* getDatabaseDir return undefined, leaves databases, current, the items and
\* the stored value as they were and fires no change event.
C11_CancelChangesNothing ==
    [][ ( /\ lastOp'.op \in ChooseOps
          /\ OpenDialogs' < OpenDialogs
          /\ lastOp'.arg = Undefined )
        => /\ lastOp'.ret = Undefined
           /\ ~lastOp'.threw
           /\ lastOp'.fired = 0
           /\ databases' = databases
           /\ current' = current
           /\ heap' = heap
           /\ persisted' = persisted
      ]_vars

\* a dialog was cancelled while a database was selected and stored
C11_Witness ==
    /\ lastOp.op \in ChooseOps
    /\ lastOp.arg = Undefined
    /\ lastOp.ret = Undefined
    /\ current # NoItem
    /\ persisted # Undefined

\* is the item's database path the first child, in listing order, of its
\* snapshot directory whose name has the required prefix
IsFirstPrefixedChild(it) ==
    LET root == Normalize(it.snapshotUri.fsPath)
        db == it.dbUri.fsPath
        l == ReaddirSync(it.snapshotUri.fsPath)
    IN  /\ it.dbUri.scheme = "file"
        /\ Len(db) = Len(root) + 1
        /\ SubSeq(db, 1, Len(root)) = root
        /\ \E i \in 1..Len(l) :
              /\ l[i] = db[Len(db)]
              /\ StartsWith(l[i], DbPrefix)
              /\ \A j \in 1..(i - 1) : ~StartsWith(l[j], DbPrefix)

\* C12: constructing a DatabaseItem fails with NoDatabaseError exactly when
\* no immediate child has the required prefix; otherwise it succeeds and the
\* database path is the snapshot directory joined with the first such child,
\* so every item has a database path that is a prefixed direct child.
C12_Construction ==
    /\ \A id \in 1..Len(heap) : IsFirstPrefixedChild(heap[id])
    /\ lastOp.uriCalled # Undefined
       => LET dir == lastOp.uriCalled[1] IN
          IF HasPrefixedChild(dir.fsPath)
          THEN /\ lastOp.errors = <<>>
               /\ Len(heap) >= 1
               /\ heap[Len(heap)].snapshotUri = dir
          ELSE lastOp.errors = <<NoDatabaseMessage(dir)>>
    /\ (lastOp.op = "constructor" /\ lastOp.arg # Undefined)
       => IF HasPrefixedChild(lastOp.arg[1])
          THEN /\ lastOp.errors = <<>>
               /\ Len(heap) = 1
               /\ heap[1].snapshotUri = UriFile(lastOp.arg[1])
          ELSE /\ lastOp.errors = <<NoDatabaseMessage(UriFile(lastOp.arg[1]))>>
               /\ heap = <<>>

\* an item of a directory with several matches exists and a directory with a
\* near-miss child name has just been refused
C12_Witness ==
    /\ \E id \in 1..Len(heap) : heap[id].snapshotUri.fsPath = DirB
    /\ lastOp.uriCalled = Some(UriFile(DirE))
    /\ lastOp.errors # <<>>

\* C13: within a session databases only grows, a new item going to the end,
\* and getChildren returns databases in stored order at the root and nothing
\* below an item.
C13_RegistryOnlyGrows ==
    [][ lastOp'.op # "constructor"
        => /\ Len(databases') >= Len(databases)
           /\ SubSeq(databases', 1, Len(databases)) = databases
           /\ Len(databases') <= Len(databases) + 1
           /\ Len(databases') = Len(databases) + 1
              => /\ databases'[Len(databases')] = Len(heap')
                 /\ Len(heap') = Len(heap) + 1
           /\ getChildren(Machine', NoItem) = databases'
           /\ \A i \in 1..Len(databases') :
                 getChildren(Machine', databases'[i]) = <<>>
      ]_vars

\* a second item was appended behind the first
C13_Witness ==
    /\ Len(databases) = 2
    /\ lastOp.uriCalled # Undefined
    /\ lastOp.fired = 1
    /\ databases[2] = Len(heap)
    /\ current = databases[2]

\* C14: setCurrentItem fires the change event exactly once, after current is
\* assigned; a successful setCurrentUri fires it exactly once after databases
\* and current are updated; no step changes databases or current without it.
C14_OneEventAfterChange ==
    [][ lastOp'.op # "constructor"
        => /\ (databases' # databases \/ current' # current) => lastOp'.fired = 1
           /\ lastOp'.fired # 0
              => /\ lastOp'.fired = 1
                 /\ lastOp'.seen = <<[databases |-> databases', current |-> current']>>
           /\ lastOp'.op = "setCurrentItem" => lastOp'.fired = 1
           /\ ( /\ lastOp'.uriCalled # Undefined
                /\ HasPrefixedChild(lastOp'.uriCalled[1].fsPath) )
              => lastOp'.fired = 1
      ]_vars

\* setCurrentUri has just appended an item and moved the selection to it
C14_Witness ==
    /\ lastOp.uriCalled # Undefined
    /\ lastOp.fired = 1
    /\ Len(databases) = 2
    /\ current = databases[2]
    /\ lastOp.seen = <<[databases |-> databases, current |-> current]>>

\* C15: setCurrentDatabase with a Uri that is not a file Uri throws, changes
\* neither databases, current, the items nor the stored value and fires no
\* change event.
C15_UnsupportedScheme ==
    [][ ( /\ lastOp'.op \in ChooseOps \cup {"setCurrentDatabase"}
          /\ lastOp'.arg # Undefined
          /\ lastOp'.arg[1].scheme # "file" )
        => /\ lastOp'.threw
           /\ lastOp'.fired = 0
           /\ lastOp'.errors = <<>>
           /\ lastOp'.uriCalled = Undefined
           /\ databases' = databases
           /\ current' = current
           /\ heap' = heap
           /\ persisted' = persisted
      ]_vars

\* a remote Uri was refused while a database was selected and stored
C15_Witness ==
    /\ lastOp.op = "setCurrentDatabase"
    /\ lastOp.arg # Undefined
    /\ lastOp.arg[1].scheme # "file"
    /\ lastOp.threw
    /\ current # NoItem
    /\ persisted # Undefined

\* the source root of an item once the existence of <snapshot>/src is known
ExpectedSrcRoot(it) ==
    LET l == ReaddirSync(it.snapshotUri.fsPath) IN
    IF \E i \in 1..Len(l) : l[i] = NameSrc
    THEN Some(UriFile(Append(Normalize(it.snapshotUri.fsPath), NameSrc)))
    ELSE Undefined

\* C16: an item's srcRoot is undefined from construction until its fs.exists
\* callback has run; it is written by that callback only and never goes
\* back to undefined; and if every callback runs in the end, it ends up as
\* <snapshot>/src when that exists and undefined otherwise.
C16_SourceRootSettles ==
    /\ [](\A id \in 1..Len(heap) :
             IF id \in pending
             THEN heap[id].srcRoot = Undefined
             ELSE heap[id].srcRoot = ExpectedSrcRoot(heap[id]))
    /\ [][\A id \in 1..Len(heap) :
             /\ id <= Len(heap')
             /\ heap'[id].srcRoot # heap[id].srcRoot
                => /\ lastOp'.op = "existsCallback"
                   /\ id \in pending
                   /\ id \notin pending'
                   /\ \A other \in (1..Len(heap)) \ {id} :
                         heap'[other].srcRoot = heap[other].srcRoot
             /\ heap[id].srcRoot # Undefined
                => heap'[id].srcRoot = heap[id].srcRoot
       ]_vars
    /\ \A id \in 1..MaxAlloc :
          (id \in pending)
          ~> ( /\ id \notin pending
               /\ id <= Len(heap)
               /\ heap[id].srcRoot = ExpectedSrcRoot(heap[id]) )

\* the current item is still unresolved while an older one has its source root
C16_Witness ==
    /\ current # NoItem
    /\ current \in pending
    /\ \E i \in 1..Len(databases) : databases[i] = current
    /\ heap[current].srcRoot = Undefined
    /\ \E id \in 1..Len(heap) : id \notin pending /\ heap[id].srcRoot # Undefined

\* the positions of databases that the tree view shows with the selected icon
ShownSelected ==
    {i \in 1..Len(databases) : getTreeItem(Machine, databases[i]).selectedIcon}

\* C17: getTreeItem gives an item the selected icon exactly if it is the
\* object current refers to, so at most one element of databases is shown
\* selected, and exactly one is when current is set.
C17_OneSelectedIcon ==
    /\ \A i \in 1..Len(databases) : (i \in ShownSelected) <=> (databases[i] = current)
    /\ Cardinality(ShownSelected) <= 1
    /\ current # NoItem => Cardinality(ShownSelected) = 1
    /\ \A i \in 1..Len(databases) :
          /\ getTreeItem(Machine, databases[i]).label
                = Basename(heap[databases[i]].snapshotUri.fsPath)
          /\ getTreeItem(Machine, databases[i]).tooltip
                = heap[databases[i]].snapshotUri.fsPath

\* two stored items have the same database path and one of them is current
C17_Witness ==
    /\ Len(databases) = 2
    /\ heap[databases[1]].dbUri = heap[databases[2]].dbUri
    /\ current = databases[2]

\* C18: with a current item getDatabaseDir returns its database path at once:
\* no dialog is opened, databases, current, the items and the stored value are
\* unchanged and no change event is fired.
C18_CurrentWithoutPrompt ==
    [][ ( /\ current # NoItem
          /\ \/ /\ lastOp'.op = "getDatabaseDir"
                /\ lastOp'.arg = Undefined
                /\ dialogs' = dialogs
             \/ dialogs'["getDatabaseDir"] > dialogs["getDatabaseDir"] )
        => /\ dialogs' = dialogs
           /\ lastOp'.ret = Some(heap[current].dbUri)
           /\ lastOp'.fired = 0
           /\ lastOp'.errors = <<>>
           /\ databases' = databases
           /\ current' = current
           /\ heap' = heap
           /\ persisted' = persisted
      ]_vars

\* getDatabaseDir has just answered from the current item
C18_Witness ==
    /\ lastOp.op = "getDatabaseDir"
    /\ lastOp.arg = Undefined
    /\ current # NoItem
    /\ lastOp.ret = Some(heap[current].dbUri)

\* the number of children of the directory with the required prefix
MatchCount(p) ==
    Cardinality({i \in 1..Len(ReaddirSync(p)) : StartsWith(ReaddirSync(p)[i], DbPrefix)})

\* the directory the step just run constructed a DatabaseItem from, if any
Constructed ==
    IF lastOp.op = "constructor" THEN lastOp.arg
    ELSE IF lastOp.uriCalled # Undefined THEN Some(lastOp.uriCalled[1].fsPath)
    ELSE Undefined

\* C19: a construction shows exactly one warning, naming the first match in
\* listing order, when the directory has several prefixed children, and none
\* when it has exactly one; it succeeds in both cases.
C19_WarningOnSeveralMatches ==
    IF Constructed = Undefined
    THEN lastOp.warnings = <<>>
    ELSE LET dir == Constructed[1] IN
         /\ MatchCount(dir) > 1
            => lastOp.warnings = <<MultipleMessage(ResolvedDb(dir))>>
         /\ MatchCount(dir) <= 1 => lastOp.warnings = <<>>
         /\ MatchCount(dir) >= 1
            => /\ lastOp.errors = <<>>
               /\ Len(heap) >= 1
               /\ heap[Len(heap)].snapshotUri.fsPath = dir
               /\ heap[Len(heap)].dbUri.fsPath = ResolvedDb(dir)

\* an item was just constructed from a directory with two matches, after one
\* from a directory with a single match
C19_Witness ==
    /\ lastOp.uriCalled # Undefined
    /\ MatchCount(lastOp.uriCalled[1].fsPath) = 2
    /\ lastOp.warnings # <<>>
    /\ Len(heap) = 2
    /\ MatchCount(heap[1].snapshotUri.fsPath) = 1

\* did the step recorded in `done` complete a dialog with a valid directory
CompletedValid(done) ==
    /\ done.op \in ChooseOps
    /\ done.arg # Undefined
    /\ done.arg[1].scheme = "file"
    /\ HasPrefixedChild(done.arg[1].fsPath)

\* C20: when two dialogs that were open together complete one after the
\* other with valid directories, each completion updates the registry and
\* the stored value in its one step, and after the second both current and
\* the stored value are those of the directory chosen last.
C20_LastDialogWins ==
    [][ ( /\ CompletedValid(lastOp)
          /\ CompletedValid(lastOp')
          /\ OpenDialogs' < OpenDialogs )
        => /\ persisted = Some(lastOp.arg[1].fsPath)
           /\ persisted' = Some(lastOp'.arg[1].fsPath)
           /\ current' # NoItem
           /\ heap'[current'].dbUri.fsPath = ResolvedDb(lastOp'.arg[1].fsPath)
      ]_vars

====
